---------------------------- MODULE Spec2Model ----------------------------
(***************************************************************************)
(* Model of the Nexus research client: the context assembler               *)
(* (performResearch), the chat controller in App.tsx (handleSendMessage,   *)
(* handleClearHistory) and the audio pipeline of ChatInterface.tsx         *)
(* (startRecording / stopRecording / handleSpeech / stopSpeech).           *)
(*                                                                         *)
(* A JavaScript string is a sequence of fragments.  A fragment is either   *)
(* one character ("A", " ", "\n", ",") or a literal chunk the code         *)
(* writes or matches as a whole ("data:", ";base64", "image/png", the      *)
(* fixed header of a knowledge-base part).  No fragment is the empty       *)
(* string, so a string is empty exactly when the sequence is.              *)
(***************************************************************************)
EXTENDS Integers, Sequences, FiniteSets, TLC

(***************************************************************************)
(* Bounds of the model.                                                    *)
(***************************************************************************)
MaxDocs == 2
MaxAtts == 1
MaxHist == 1
MaxSends == 2
MaxClock == 1
MaxRecorders == 2
MaxPendingClears == 1
MaxSpeeches == 2
MaxPendingStops == 1
MaxPendingToggles == 1
MaxDocOps == 2
MaxUploads == 1
MaxDocRequests == 3

VARIABLES
    \* ---- inputs and result of one performResearch call (pure part)
    a_prompt, a_history, a_memory, a_attachments, a_contents, a_phase,
    \* ---- App.tsx
    now,              \* Date.now()
    documents,        \* useState<DocumentItem[]>
    messages,         \* useState<ChatMessage[]>
    status,           \* useState<AppStatus>
    store_msgs,       \* the persisted messages collection (keyed by id)
    sends,            \* one record per handleSendMessage invocation
    clearing,         \* handleClearHistory invocations awaiting db.clearMessages()
    \* ---- ChatInterface.tsx: capture and transcription
    pendingSnapshot,  \* useState<ChatAttachment | null>
    isRecording, isTranscribing,
    acquiring,        \* startRecording invocations awaiting getUserMedia
    recorders,        \* every MediaRecorder created so far
    mediaRecorderRef, \* index into recorders, 0 for null
    \* ---- ChatInterface.tsx: speech playback and auto-speak
    audio,            \* isSpeaking, isPaused, autoSpeak, the refs and the
                      \* pending continuations of the playback handlers
    \* ---- App.tsx and db.ts: boot and the document memory
    boot,             \* isInitializing, initError and the two reads of initData
    store_docs,       \* the persisted documents collection (keyed by id)
    docops            \* document handlers awaiting their store requests

avars == <<a_prompt, a_history, a_memory, a_attachments, a_contents, a_phase>>

appvars == <<now, documents, messages, status, store_msgs, sends, clearing>>

recvars == <<pendingSnapshot, isRecording, isTranscribing, acquiring, recorders,
             mediaRecorderRef>>

memvars == <<boot, store_docs, docops>>

vars == <<avars, appvars, recvars, audio, memvars>>

(***************************************************************************)
(* Strings                                                                 *)
(***************************************************************************)
\* The characters matched by \s (and by \r, \n) in a JavaScript regex.
Whitespace == {" ", "\n", "\r", "\t"}

\* Fragments that begin with ';' (excluded by the class [^;]).
Semicolon == {";", ";base64"}

RECURSIVE TrimStart(_)
TrimStart(s) ==
    IF s = <<>> THEN <<>>
    ELSE IF Head(s) \in Whitespace THEN TrimStart(Tail(s)) ELSE s

RECURSIVE TrimEnd(_)
TrimEnd(s) ==
    IF s = <<>> THEN <<>>
    ELSE IF s[Len(s)] \in Whitespace THEN TrimEnd(SubSeq(s, 1, Len(s) - 1)) ELSE s

\* String.prototype.trim
Trim(s) == TrimEnd(TrimStart(s))

\* JavaScript truthiness of a string
Truthy(s) == s # <<>>

StripAllWs(s) == SelectSeq(s, LAMBDA c : c \notin Whitespace)

StripNewlinesOnly(s) == SelectSeq(s, LAMBDA c : c \notin {"\n", "\r"})

\* s.replace(/[\r\n\s]+/g, '')
CleanBase64(s) == StripAllWs(s)

\* s.indexOf(','), 1-based; 0 when there is no comma (JavaScript's -1)
IndexOfComma(s) ==
    IF \E i \in 1..Len(s) : s[i] = ","
    THEN CHOOSE i \in 1..Len(s) : s[i] = "," /\ \A j \in 1..(i - 1) : s[j] # ","
    ELSE 0

\* header.match(/data:([^;]+);base64/): the set of (start, end) of the matches
MimeMatches(header) ==
    {p \in (1..Len(header)) \X (1..Len(header)) :
        /\ p[1] + 1 < p[2]
        /\ header[p[1]] = "data:"
        /\ header[p[2]] = ";base64"
        /\ \A k \in (p[1] + 1)..(p[2] - 1) : header[k] \notin Semicolon}

\* match[1] of the leftmost match, <<>> when there is none
MatchMime(header) ==
    IF MimeMatches(header) = {} THEN <<>>
    ELSE LET p == CHOOSE q \in MimeMatches(header) :
                      \A r \in MimeMatches(header) : q[1] <= r[1]
         IN  SubSeq(header, p[1] + 1, p[2] - 1)

(***************************************************************************)
(* performResearch: request assembly                                       *)
(***************************************************************************)
TextTypes == {"text", "json", "markdown", "csv"}
BinaryTypes == {"image", "pdf"}
DocTypes == TextTypes \cup BinaryTypes

TextPart(s) == [kind |-> "text", text |-> s]
InlinePart(m, d) == [kind |-> "inlineData", mimeType |-> m, data |-> d]

HistoryPlaceholder == <<"...">>
CurrentPlaceholder == <<"Analyze the current context.">>

HistoryTextPartsNoTrim(msg) ==
    IF Truthy(msg.text) THEN <<TextPart(msg.text)>> ELSE <<>>

HistoryTextParts(msg) ==
    IF Truthy(msg.text) /\ Truthy(Trim(msg.text)) THEN <<TextPart(msg.text)>> ELSE <<>>

HistoryAttachmentParts(msg) ==
    IF msg.hasAttachments /\ Len(msg.attachments) > 0
    THEN [i \in 1..Len(msg.attachments) |->
            InlinePart(msg.attachments[i].mimeType, msg.attachments[i].data)]
    ELSE <<>>

HistoryParts(msg) ==
    LET parts == HistoryTextParts(msg) \o HistoryAttachmentParts(msg)
    IN  IF Len(parts) = 0 THEN <<TextPart(HistoryPlaceholder)>> ELSE parts

HistoryTurn(msg) ==
    [role |-> IF msg.role = "user" THEN "user" ELSE "model", parts |-> HistoryParts(msg)]

IsTextDocLegacy(doc) == doc.type # "image"

IsTextDoc(doc) == doc.type \in TextTypes

IsBinaryDoc(doc) == doc.type \in BinaryTypes

TextDocPart(doc) ==
    TextPart(<<"[KNOWLEDGE BASE DOCUMENT: ">> \o doc.name \o <<" (", doc.type, ")]", "\n">>
             \o doc.content)

\* the base64 payload of a binary document before cleaning
RawBase64(doc) ==
    LET commaIndex == IndexOfComma(doc.content)
    IN  IF commaIndex # 0
        THEN SubSeq(doc.content, commaIndex + 1, Len(doc.content))
        ELSE doc.content

DocMimeType(doc) ==
    LET commaIndex == IndexOfComma(doc.content)
        fromHeader == IF commaIndex # 0
                      THEN MatchMime(SubSeq(doc.content, 1, commaIndex - 1))
                      ELSE <<>>
        mimeType   == IF Truthy(fromHeader) THEN fromHeader ELSE doc.mimeType
    IN  IF Truthy(mimeType) THEN mimeType
        ELSE IF doc.type = "pdf" THEN <<"application/pdf">> ELSE <<"image/jpeg">>

BinaryDocParts(doc) ==
    LET base64Data == CleanBase64(RawBase64(doc))
    IN  IF Truthy(base64Data) THEN <<InlinePart(DocMimeType(doc), base64Data)>> ELSE <<>>

PromptParts(prompt) ==
    IF Truthy(prompt) /\ Truthy(Trim(prompt)) THEN <<TextPart(prompt)>> ELSE <<>>

AttachmentParts(att) ==
    IF Truthy(att.data) THEN <<InlinePart(att.mimeType, CleanBase64(att.data))>> ELSE <<>>

\* binaryDocs.forEach(...)
RECURSIVE AllBinaryDocParts(_)
AllBinaryDocParts(docs) ==
    IF docs = <<>> THEN <<>>
    ELSE BinaryDocParts(Head(docs)) \o AllBinaryDocParts(Tail(docs))

\* currentAttachments.forEach(...)
RECURSIVE AllAttachmentParts(_)
AllAttachmentParts(atts) ==
    IF atts = <<>> THEN <<>>
    ELSE AttachmentParts(Head(atts)) \o AllAttachmentParts(Tail(atts))

CurrentParts(prompt, memory, currentAttachments) ==
    LET textDocs   == SelectSeq(memory, IsTextDoc)
        binaryDocs == SelectSeq(memory, IsBinaryDoc)
        parts == [i \in 1..Len(textDocs) |-> TextDocPart(textDocs[i])]
                 \o AllBinaryDocParts(binaryDocs)
                 \o PromptParts(prompt)
                 \o AllAttachmentParts(currentAttachments)
    IN  IF Len(parts) = 0 THEN <<TextPart(CurrentPlaceholder)>> ELSE parts

\* the `contents` array handed to ai.models.generateContent
performResearch(prompt, history, memory, currentAttachments) ==
    [i \in 1..Len(history) |-> HistoryTurn(history[i])]
    \o <<[role |-> "user", parts |-> CurrentParts(prompt, memory, currentAttachments)]>>

(***************************************************************************)
(* The inputs one performResearch call is applied to.                      *)
(***************************************************************************)
RECURSIVE SeqsUpTo(_, _)
SeqsUpTo(S, n) ==
    IF n = 0 THEN {<<>>}
    ELSE LET shorter == SeqsUpTo(S, n - 1)
         IN  shorter \cup {Append(q, x) : q \in {r \in shorter : Len(r) = n - 1}, x \in S}

\* empty, plain, whitespace only, padded
SampleTexts == {<<>>, <<"A">>, <<" ">>, <<" ", "A", "\n">>}

\* contents of a binary document: raw base64, data URLs, with and without
\* embedded whitespace, with an empty and an all-whitespace payload
SampleBinaryContents ==
    { <<"A", " ", "B", "\r", "\n", "C">>,
      <<"data:", "image/png", ";base64", ",", "A", "\n", "B">>,
      <<"data:", "image/png", ";base64", ",", " ", "\n">>,
      <<"data:", "application/pdf", ";base64", ",">> }

SampleDocs ==
    {[id |-> <<"d">>, name |-> <<"notes.txt">>, type |-> t, mimeType |-> <<"text/plain">>,
      content |-> <<"A">>] : t \in TextTypes}
    \cup
    {[id |-> <<"d">>, name |-> <<"scan">>, type |-> t, mimeType |-> <<>>,
      content |-> c] : t \in BinaryTypes, c \in SampleBinaryContents}

SampleAttachments ==
    {[type |-> "image", mimeType |-> <<"image/jpeg">>, data |-> d] :
        d \in {<<>>, <<"A">>, <<" ">>, <<"A", " ", "B", "\n">>}}

SampleHistoryMessages ==
    {[id |-> 0, role |-> r, text |-> t, hasAttachments |-> FALSE, attachments |-> <<>>,
      timestamp |-> 0] : r \in {"user", "model"}, t \in SampleTexts}
    \cup
    {[id |-> 0, role |-> r, text |-> t, hasAttachments |-> TRUE, attachments |-> a,
      timestamp |-> 0] :
        r \in {"user", "model"}, t \in SampleTexts,
        a \in {<<>>} \cup {<<x>> : x \in {y \in SampleAttachments :
                                            y.data \in {<<>>, <<"A">>}}}}

\* The replayed turns read only the history, the new turn only the prompt,
\* the memory and the attachments: the inputs vary one group at a time.
AssembleInit ==
    /\ a_phase = "input"
    /\ a_contents = <<>>
    /\ a_prompt \in SampleTexts
    /\ \/ /\ a_history = <<>>
          /\ a_memory \in SeqsUpTo(SampleDocs, MaxDocs)
          /\ a_attachments \in SeqsUpTo(SampleAttachments, MaxAtts)
       \/ /\ a_history \in SeqsUpTo(SampleHistoryMessages, MaxHist)
          /\ a_memory = <<>>
          /\ a_attachments = <<>>

Assemble ==
    /\ a_phase = "input"
    /\ a_phase' = "done"
    /\ a_contents' = performResearch(a_prompt, a_history, a_memory, a_attachments)
    /\ UNCHANGED <<a_prompt, a_history, a_memory, a_attachments>>

(***************************************************************************)
(* Speech playback (ChatInterface.tsx).  `audio` is a record:              *)
(*   isSpeaking            id of the active speech target, NoId for null   *)
(*   isPaused, autoSpeak   React state                                     *)
(*   lastReadMessageId     lastReadMessageIdRef.current, NoId for null     *)
(*   ctx                   audioContextRef: "none", "running", "suspended" *)
(*   sources               every AudioBufferSourceNode started so far:     *)
(*                         "playing", "stopped" (stop() called, its ended  *)
(*                         event not yet delivered) or "ended"             *)
(*   currentAudioSourceRef index into sources, 0 for null                  *)
(*   speeches              handleSpeech invocations past their first await *)
(*   stops                 stopSpeech invocations awaiting ctx.resume()    *)
(*   toggles               pauseSpeech / resumeSpeech awaiting the context *)
(*   requested             number of generateSpeech calls issued so far    *)
(*   autoSpoken            the ids the auto-speak effect invoked           *)
(*                         handleSpeech with, in order                     *)
(***************************************************************************)
NoId == -1

StopSource(sources, ref) ==
    IF ref # 0 /\ sources[ref].state = "playing"
    THEN [sources EXCEPT ![ref].state = "stopped"]
    ELSE sources

\* stopSpeech from its second `if` on (lines 105-115)
StopSpeechTail(a) ==
    [a EXCEPT !.sources = StopSource(a.sources, a.currentAudioSourceRef),
              !.currentAudioSourceRef = 0,
              !.isSpeaking = NoId,
              !.isPaused = FALSE]

\* stopSpeech up to its first await, or to its end when it does not await
stopSpeech(a) ==
    IF a.ctx = "suspended"
    THEN [a EXCEPT !.stops = @ + 1]
    ELSE StopSpeechTail(a)

pauseSpeech(a) ==
    IF a.ctx = "running" THEN [a EXCEPT !.toggles = Append(@, "suspend")] ELSE a

resumeSpeech(a) ==
    IF a.ctx = "suspended" THEN [a EXCEPT !.toggles = Append(@, "resume")] ELSE a

\* handleSpeech up to its first await (generateSpeech)
handleSpeech(a, messageId) ==
    IF a.isSpeaking = messageId
    THEN IF a.isPaused THEN resumeSpeech(a) ELSE pauseSpeech(a)
    ELSE [stopSpeech(a) EXCEPT !.isSpeaking = messageId,
                               !.isPaused = FALSE,
                               !.speeches = Append(@, [id |-> messageId, pc |-> "synth"]),
                               !.requested = @ + 1]

\* an effect that speaks the last model-authored message whenever it runs
AutoSpeakEffectUntracked(a, msgs) ==
    IF Len(msgs) = 0
    THEN [stopSpeech(a) EXCEPT !.lastReadMessageId = NoId]
    ELSE LET lastMsg == msgs[Len(msgs)]
             seen    == [a EXCEPT !.lastReadMessageId = lastMsg.id]
         IN  IF lastMsg.role = "model" /\ a.autoSpeak
             THEN handleSpeech([seen EXCEPT !.autoSpoken = Append(@, lastMsg.id)],
                               lastMsg.id)
             ELSE seen

\* the auto-speak effect, run after a render that changed `messages` or
\* `autoSpeak`
AutoSpeakEffect(a, msgs) ==
    IF a.lastReadMessageId = NoId /\ Len(msgs) > 0
    THEN [a EXCEPT !.lastReadMessageId = msgs[Len(msgs)].id]
    ELSE IF Len(msgs) = 0
    THEN [stopSpeech(a) EXCEPT !.lastReadMessageId = NoId]
    ELSE LET lastMsg == msgs[Len(msgs)]
             seen    == [a EXCEPT !.lastReadMessageId = lastMsg.id]
         IN  IF lastMsg.id # a.lastReadMessageId
             THEN IF lastMsg.role = "model" /\ a.autoSpeak
                  THEN handleSpeech([seen EXCEPT !.autoSpoken = Append(@, lastMsg.id)],
                                    lastMsg.id)
                  ELSE seen
             ELSE a

\* bound on the stopSpeech invocations that await ctx.resume() at one time
StopBudget == audio.ctx = "suspended" => audio.stops < MaxPendingStops

(***************************************************************************)
(* db.ts and App.tsx: boot (initData) and the document memory              *)
(***************************************************************************)
\* initError === null
NoError == <<>>
InitErrorText == <<"Nexus could not access its local memory bank.">>

Reads == {"docs", "msgs"}

IdleReads == [r \in Reads |-> [pc |-> "idle", result |-> <<>>]]

\* the boot state once initData has finished without an error
BootDone ==
    [isInitializing |-> FALSE, initError |-> NoError, reads |-> IdleReads,
     failedOpens |-> {}]

\* the main screen is rendered: neither the spinner nor the failure screen
MemoryReady == ~boot.isInitializing /\ boot.initError = NoError

NoDocOps == [ops |-> <<>>, uploaded |-> 0, issued |-> 0]

MemoryLoaded == boot = BootDone /\ store_docs = {} /\ docops = NoDocOps

\* the demo documents of handleLoadDemoData (contents abbreviated)
DemoDocs(t) ==
    << [id |-> <<"demo-protocol">>, name |-> <<"evaluation_protocol.txt">>,
        type |-> "text", mimeType |-> <<>>, content |-> <<"A">>, timestamp |-> t],
       [id |-> <<"demo-protocol-visual">>, name |-> <<"protocol_page_1.png">>,
        type |-> "image", mimeType |-> <<"image/png">>,
        content |-> <<"data:", "image/png", ";base64", ",", "A">>, timestamp |-> t],
       [id |-> <<"demo-protocol-ocr">>, name |-> <<"protocol_page_1_ocr.txt">>,
        type |-> "text", mimeType |-> <<>>, content |-> <<"A">>, timestamp |-> t],
       [id |-> <<"demo-run1">>, name |-> <<"experimental_run_1.csv">>,
        type |-> "text", mimeType |-> <<>>, content |-> <<"A">>, timestamp |-> t],
       [id |-> <<"demo-run2">>, name |-> <<"experimental_run_2.csv">>,
        type |-> "text", mimeType |-> <<>>, content |-> <<"A">>, timestamp |-> t] >>

\* the ids Math.random().toString(36).substr(2, 9) yields for the uploads
UploadIds == << <<"u1">>, <<"u2">> >>

\* the document KnowledgeBase builds from an uploaded file
UploadedDoc(k, t) ==
    [id |-> UploadIds[k], name |-> <<"notes.txt">>, type |-> "text",
     mimeType |-> <<"text/plain">>, content |-> <<"A">>, timestamp |-> t]

\* the keys of the documents collection in key (string) order
DocKeys ==
    << <<"demo-protocol">>, <<"demo-protocol-ocr">>, <<"demo-protocol-visual">>,
       <<"demo-run1">>, <<"demo-run2">>, <<"u0">>, <<"u1">>, <<"u2">> >>

\* store.put(doc) and store.delete(id) on the documents collection
PutDocument(store, doc) == {d \in store : d.id # doc.id} \cup {doc}

RECURSIVE PutDocuments(_, _)
PutDocuments(store, docs) ==
    IF docs = <<>> THEN store
    ELSE PutDocuments(PutDocument(store, Head(docs)), Tail(docs))

DeleteDocument(store, id) == {d \in store : d.id # id}

\* store.getAll() on the documents collection: the records in key order
GetAllDocuments(store) ==
    LET Has(k)  == \E d \in store : d.id = k
        present == SelectSeq(DocKeys, Has)
    IN  [i \in 1..Len(present) |-> CHOOSE d \in store : d.id = present[i]]

\* store.getAll() on the messages collection: the records in key order
\* (the ids of one epoch have the same number of digits)
RECURSIVE GetAllMessages(_)
GetAllMessages(store) ==
    IF store = {} THEN <<>>
    ELSE LET m == CHOOSE x \in store : \A y \in store : x.id <= y.id
         IN  <<m>> \o GetAllMessages(store \ {m})

\* loadedMsgs.sort((a, b) => a.timestamp - b.timestamp), a stable sort
RECURSIVE SortByTimestamp(_)
SortByTimestamp(s) ==
    IF s = <<>> THEN <<>>
    ELSE LET rest == SortByTimestamp(Tail(s))
             le   == SelectSeq(rest, LAMBDA m : m.timestamp < Head(s).timestamp)
             gt   == SelectSeq(rest, LAMBDA m : m.timestamp >= Head(s).timestamp)
         IN  le \o <<Head(s)>> \o gt

\* initData up to its await: both reads are started
initData(b) ==
    [b EXCEPT !.initError = NoError, !.isInitializing = TRUE,
              !.reads = [r \in Reads |-> [pc |-> "opening", result |-> <<>>]],
              !.failedOpens = {}]

\* openDB rejects (no window.indexedDB, or request.onerror): the await in
\* the read throws inside its try block and the catch returns []
OpenFails ==
    \E r \in Reads :
        /\ boot.reads[r].pc = "opening"
        /\ boot' = [boot EXCEPT !.reads[r] = [pc |-> "resolved", result |-> <<>>],
                                !.failedOpens = @ \cup {r}]
        /\ UNCHANGED <<avars, appvars, recvars, audio, store_docs, docops>>

\* openDB resolves: the read returns the promise of its getAll request
OpenSucceeds ==
    \E r \in Reads :
        /\ boot.reads[r].pc = "opening"
        /\ boot' = [boot EXCEPT !.reads[r].pc = "reading"]
        /\ UNCHANGED <<avars, appvars, recvars, audio, store_docs, docops>>

\* request.onsuccess of getAll
GetAllSucceeds ==
    \E r \in Reads :
        /\ boot.reads[r].pc = "reading"
        /\ boot' = [boot EXCEPT !.reads[r] =
                       [pc |-> "resolved",
                        result |-> IF r = "docs" THEN GetAllDocuments(store_docs)
                                   ELSE GetAllMessages(store_msgs)]]
        /\ UNCHANGED <<avars, appvars, recvars, audio, store_docs, docops>>

\* request.onerror of getAll: the promise the read returned (without
\* awaiting it) rejects, outside the try block of the read
GetAllErrors ==
    \E r \in Reads :
        /\ boot.reads[r].pc = "reading"
        /\ boot' = [boot EXCEPT !.reads[r].pc = "rejected"]
        /\ UNCHANGED <<avars, appvars, recvars, audio, store_docs, docops>>

\* initData after Promise.all resolved; ChatInterface mounts with the
\* loaded conversation and its auto-speak effect runs
InitDataLoaded ==
    /\ boot.isInitializing
    /\ \A r \in Reads : boot.reads[r].pc = "resolved"
    /\ documents' = boot.reads["docs"].result
    /\ messages' = SortByTimestamp(boot.reads["msgs"].result)
    /\ boot' = [boot EXCEPT !.isInitializing = FALSE, !.reads = IdleReads]
    /\ audio' = AutoSpeakEffect(audio, messages')
    /\ UNCHANGED <<avars, now, status, store_msgs, sends, clearing, recvars,
                   store_docs, docops>>

\* initData after Promise.all rejected: the catch and the finally block
InitDataFailed ==
    /\ boot.isInitializing
    /\ \E r \in Reads : boot.reads[r].pc = "rejected"
    /\ boot' = [boot EXCEPT !.initError = InitErrorText, !.isInitializing = FALSE,
                            !.reads = IdleReads]
    /\ UNCHANGED <<avars, appvars, recvars, audio, store_docs, docops>>

\* the retry button of the failure screen
RetryInit ==
    /\ ~boot.isInitializing
    /\ boot.initError # NoError
    /\ boot' = initData(boot)
    /\ UNCHANGED <<avars, appvars, recvars, audio, store_docs, docops>>

\* the reset button of the failure screen: db.clearMessages() is issued,
\* then evaluating db.clearDocuments() throws (the wrapper has no such
\* function) and the catch block alerts; the page is not reloaded
HandleResetStorage ==
    /\ ~boot.isInitializing
    /\ boot.initError # NoError
    /\ store_msgs # {}
    /\ store_msgs' = {}
    /\ UNCHANGED <<avars, now, documents, messages, status, sends, clearing, recvars,
                   audio, memvars>>

\* bounds on the document handlers in flight and on their invocations
DocOpBudget == Len(docops.ops) < MaxDocOps /\ docops.issued < MaxDocRequests

\* handleAddDocument up to its await; ok tells whether db.addDocument
\* will resolve (the put is executed) or reject (nothing is stored)
HandleAddDocument ==
    \E ok \in BOOLEAN :
        /\ MemoryReady
        /\ DocOpBudget
        /\ docops.uploaded < MaxUploads
        /\ LET doc == UploadedDoc(docops.uploaded + 1, now)
           IN  /\ store_docs' = IF ok THEN PutDocument(store_docs, doc) ELSE store_docs
               /\ docops' = [docops EXCEPT
                                !.ops = Append(@, [kind |-> "add", ok |-> ok,
                                                   docs |-> <<doc>>, id |-> doc.id]),
                                !.uploaded = @ + 1, !.issued = @ + 1]
        /\ UNCHANGED <<avars, appvars, recvars, audio, boot>>

\* handleRemoveDocument up to its await, from the remove button of a listed
\* document
HandleRemoveDocument ==
    \E i \in 1..Len(documents), ok \in BOOLEAN :
        /\ MemoryReady
        /\ DocOpBudget
        /\ store_docs' = IF ok THEN DeleteDocument(store_docs, documents[i].id)
                         ELSE store_docs
        /\ docops' = [docops EXCEPT
                         !.ops = Append(@, [kind |-> "remove", ok |-> ok,
                                            docs |-> <<>>, id |-> documents[i].id]),
                         !.issued = @ + 1]
        /\ UNCHANGED <<avars, appvars, recvars, audio, boot>>

\* demoDocs.filter(demo => !documents.some(d => d.id === demo.id))
NewDemoDocs(cDocuments, t) ==
    SelectSeq(DemoDocs(t),
              LAMBDA demo : ~\E j \in 1..Len(cDocuments) : cDocuments[j].id = demo.id)

\* handleLoadDemoData up to its await; `documents` is the list of the render
\* the handler was created in.  With nothing new it alerts and returns.
HandleLoadDemoData ==
    \E ok \in BOOLEAN :
        /\ MemoryReady
        /\ DocOpBudget
        /\ LET newDocs == NewDemoDocs(documents, now)
           IN  /\ newDocs # <<>>
               /\ store_docs' = IF ok THEN PutDocuments(store_docs, newDocs)
                                ELSE store_docs
               /\ docops' = [docops EXCEPT
                                !.ops = Append(@, [kind |-> "load", ok |-> ok,
                                                   docs |-> newDocs, id |-> <<>>]),
                                !.issued = @ + 1]
        /\ UNCHANGED <<avars, appvars, recvars, audio, boot>>

\* the setDocuments updater of the handler that op belongs to
SetDocuments(op, prev) ==
    IF op.kind = "remove"
    THEN SelectSeq(prev, LAMBDA d : d.id # op.id)
    ELSE prev \o op.docs

\* a document handler after its await: the store answers the requests in
\* the order they were issued.  A rejection leaves the list alone
\* (handleLoadDemoData alerts, the other two handlers just throw).
DocumentOpDone ==
    /\ docops.ops # <<>>
    /\ LET op == Head(docops.ops)
       IN  documents' = IF op.ok THEN SetDocuments(op, documents) ELSE documents
    /\ docops' = [docops EXCEPT !.ops = Tail(@)]
    /\ UNCHANGED <<avars, now, messages, status, store_msgs, sends, clearing, recvars,
                   audio, boot, store_docs>>

(***************************************************************************)
(* App.tsx: the chat controller                                            *)
(***************************************************************************)
UserMsg(text, attachments, t) ==
    [id |-> t, role |-> "user", text |-> text, hasAttachments |-> TRUE,
     attachments |-> attachments, timestamp |-> t]

ReplyText == <<"R">>
ErrorText == <<"Research cycle interrupted. Check your API key or data volume.">>

ModelMsg(text, t) ==
    [id |-> t + 1, role |-> "model", text |-> text, hasAttachments |-> FALSE,
     attachments |-> <<>>, timestamp |-> t]

\* store.put(msg) on the messages collection, keyPath 'id'
PutMessage(store, msg) == {m \in store : m.id # msg.id} \cup {msg}

\* the `history` argument handleSendMessage passes: [...messages, userMsg]
HistoryArg(cMessages, userMsg) == Append(cMessages, userMsg)

\* a variant that puts the new message in front of the conversation
handleSendMessageNewestFirst(text, attachments, cMessages, cDocuments) ==
    LET userMsg == UserMsg(text, attachments, now)
    IN  /\ messages' = <<userMsg>> \o messages
        /\ store_msgs' = PutMessage(store_msgs, userMsg)
        /\ status' = "LOADING"
        /\ sends' = Append(sends,
               [prompt |-> text, attachments |-> attachments,
                history |-> HistoryArg(cMessages, userMsg), memory |-> cDocuments,
                prior |-> [i \in 1..Len(messages) |-> messages[i].role],
                pc |-> "awaiting", calls |-> 1, appended |-> <<"user">>])
        /\ audio' = AutoSpeakEffect(audio, messages')

\* handleSendMessage up to its await.  cMessages and cDocuments are the
\* `messages` and `documents` of the render the callback was created in.
handleSendMessage(text, attachments, cMessages, cDocuments) ==
    LET userMsg == UserMsg(text, attachments, now)
    IN  /\ messages' = Append(messages, userMsg)
        /\ store_msgs' = PutMessage(store_msgs, userMsg)
        /\ status' = "LOADING"
        /\ sends' = Append(sends,
               [prompt |-> text, attachments |-> attachments,
                history |-> HistoryArg(cMessages, userMsg), memory |-> cDocuments,
                prior |-> [i \in 1..Len(messages) |-> messages[i].role],
                pc |-> "awaiting", calls |-> 1, appended |-> <<"user">>])
        /\ audio' = AutoSpeakEffect(audio, messages')

\* the record of an invocation whose promise settled: its arguments are garbage
Settled(send, pc, kind) ==
    [send EXCEPT !.pc = pc, !.appended = Append(@, kind), !.prompt = <<>>,
                 !.attachments = <<>>, !.history = <<>>, !.memory = <<>>, !.prior = <<>>]

SubmitInputs == {<<>>, <<"Q">>}

CameraSnapshot == [type |-> "image", mimeType |-> <<"image/jpeg">>, data |-> <<"A">>]

\* ChatInterface.handleSubmit; the form can be submitted only while the
\* textarea is enabled or the submit button rendered (not while recording)
HandleSubmit ==
    \E input \in SubmitInputs :
        /\ ~isRecording
        /\ ~((~Truthy(Trim(input)) /\ pendingSnapshot = <<>>)
             \/ status = "LOADING" \/ isTranscribing)
        /\ Len(sends) < MaxSends
        /\ handleSendMessage(input, pendingSnapshot, messages, documents)
        /\ pendingSnapshot' = <<>>
        /\ UNCHANGED <<memvars, avars, now, documents, clearing, isRecording, isTranscribing,
                       acquiring, recorders, mediaRecorderRef>>

\* the continuation of handleSendMessage after performResearch resolved
ResearchResolve ==
    \E i \in 1..Len(sends) :
        /\ sends[i].pc = "awaiting"
        /\ LET aiMsg == ModelMsg(ReplyText, now)
           IN  /\ messages' = Append(messages, aiMsg)
               /\ store_msgs' = PutMessage(store_msgs, aiMsg)
        /\ status' = "IDLE"
        /\ sends' = [sends EXCEPT ![i] = Settled(@, "resolved", "reply")]
        /\ audio' = AutoSpeakEffect(audio, messages')
        /\ UNCHANGED <<memvars, avars, now, documents, clearing, recvars>>

ResearchRejectRetry ==
    \E i \in 1..Len(sends) :
        /\ sends[i].pc = "awaiting"
        /\ sends[i].calls < 2
        /\ sends' = [sends EXCEPT ![i].calls = @ + 1]
        /\ UNCHANGED <<memvars, avars, now, documents, messages, status, store_msgs, clearing,
                       recvars, audio>>

ResearchRejectToIdle ==
    \E i \in 1..Len(sends) :
        /\ sends[i].pc = "awaiting"
        /\ LET errorMsg == ModelMsg(ErrorText, now)
           IN  /\ messages' = Append(messages, errorMsg)
               /\ store_msgs' = PutMessage(store_msgs, errorMsg)
        /\ status' = "IDLE"
        /\ sends' = [sends EXCEPT ![i] = Settled(@, "rejected", "error")]
        /\ audio' = AutoSpeakEffect(audio, messages')
        /\ UNCHANGED <<memvars, avars, now, documents, clearing, recvars>>

\* the catch block of handleSendMessage
ResearchReject ==
    \E i \in 1..Len(sends) :
        /\ sends[i].pc = "awaiting"
        /\ LET errorMsg == ModelMsg(ErrorText, now)
           IN  /\ messages' = Append(messages, errorMsg)
               /\ store_msgs' = PutMessage(store_msgs, errorMsg)
        /\ status' = "ERROR"
        /\ sends' = [sends EXCEPT ![i] = Settled(@, "rejected", "error")]
        /\ audio' = AutoSpeakEffect(audio, messages')
        /\ UNCHANGED <<memvars, avars, now, documents, clearing, recvars>>

\* a variant that also clears the documents collection
HandleClearHistoryAndMemory ==
    /\ MemoryReady
    /\ clearing < MaxPendingClears
    /\ clearing' = clearing + 1
    /\ store_msgs' = {}
    /\ store_docs' = {}
    /\ UNCHANGED <<avars, now, documents, messages, status, sends, recvars, audio,
                   boot, docops>>

\* handleClearHistory up to its await: db.clearMessages() is issued.  The
\* store executes requests in the order they were issued.  (When
\* clearMessages rejects, the catch block logs and no state changes.)
HandleClearHistory ==
    /\ MemoryReady
    /\ clearing < MaxPendingClears
    /\ clearing' = clearing + 1
    /\ store_msgs' = {}
    /\ UNCHANGED <<memvars, avars, now, documents, messages, status, sends, recvars, audio>>

\* handleClearHistory after db.clearMessages() resolved
ClearHistoryDone ==
    /\ clearing > 0
    /\ StopBudget
    /\ clearing' = clearing - 1
    /\ messages' = <<>>
    /\ status' = "IDLE"
    /\ audio' = AutoSpeakEffect(audio, messages')
    /\ UNCHANGED <<memvars, avars, now, documents, store_msgs, sends, recvars>>

\* Date.now() advances
Tick ==
    /\ now < MaxClock
    /\ now' = now + 1
    /\ UNCHANGED <<memvars, avars, documents, messages, status, store_msgs, sends, clearing,
                   recvars, audio>>

(***************************************************************************)
(* ChatInterface.tsx: camera snapshot, capture and transcription           *)
(***************************************************************************)
CaptureSnapshot ==
    /\ pendingSnapshot = <<>>
    /\ pendingSnapshot' = <<CameraSnapshot>>
    /\ UNCHANGED <<memvars, avars, appvars, isRecording, isTranscribing, acquiring, recorders,
                   mediaRecorderRef, audio>>

DiscardSnapshot ==
    /\ pendingSnapshot # <<>>
    /\ pendingSnapshot' = <<>>
    /\ UNCHANGED <<memvars, avars, appvars, isRecording, isTranscribing, acquiring, recorders,
                   mediaRecorderRef, audio>>

RemoveAt(s, k) == SubSeq(s, 1, k - 1) \o SubSeq(s, k + 1, Len(s))

\* the sources that were started and neither stopped nor ended
Playing(sources) == {n \in 1..Len(sources) : sources[n].state = "playing"}

\* the early return of startRecording
StartRecordingGuard == ~(isTranscribing \/ status = "LOADING")

\* startRecording up to `await getUserMedia`.  The microphone button is
\* rendered while isRecording is false; one press delivers pointerdown and
\* mousedown, each of which invokes startRecording.  The onstop handler
\* created later closes over this render's onSendMessage and pendingSnapshot.
\* cPlaying records which sources were audible or paused at the invocation.
StartRecording ==
    /\ ~isRecording
    /\ StartRecordingGuard
    /\ Len(acquiring) + Len(recorders) < MaxRecorders
    /\ StopBudget
    /\ audio' = stopSpeech(audio)
    /\ acquiring' = Append(acquiring, [cMessages |-> messages, cDocuments |-> documents,
                                       cSnapshot |-> pendingSnapshot,
                                       cPlaying |-> Playing(audio.sources)])
    /\ UNCHANGED <<memvars, avars, appvars, pendingSnapshot, isRecording, isTranscribing,
                   recorders, mediaRecorderRef>>

\* getUserMedia resolved: lines 388-424
AcquireGranted ==
    \E k \in 1..Len(acquiring) :
        /\ acquiring' = RemoveAt(acquiring, k)
        /\ recorders' = Append(recorders,
               [state |-> "recording", pc |-> "live",
                cMessages |-> acquiring[k].cMessages,
                cDocuments |-> acquiring[k].cDocuments,
                cSnapshot |-> acquiring[k].cSnapshot,
                cPlaying |-> acquiring[k].cPlaying])
        /\ mediaRecorderRef' = Len(recorders) + 1
        /\ isRecording' = TRUE
        /\ UNCHANGED <<memvars, avars, appvars, pendingSnapshot, isTranscribing, audio>>

\* getUserMedia rejected: the catch block logs
AcquireDenied ==
    \E k \in 1..Len(acquiring) :
        /\ acquiring' = RemoveAt(acquiring, k)
        /\ UNCHANGED <<memvars, avars, appvars, pendingSnapshot, isRecording, isTranscribing,
                       recorders, mediaRecorderRef, audio>>

\* stopRecording on a recorder that is recording (stop() on an inactive
\* recorder throws and changes nothing)
StopRecording ==
    /\ mediaRecorderRef # 0 /\ isRecording
    /\ recorders[mediaRecorderRef].state = "recording"
    /\ recorders' = [recorders EXCEPT ![mediaRecorderRef].state = "inactive",
                                      ![mediaRecorderRef].pc = "onstop"]
    /\ UNCHANGED <<memvars, avars, appvars, pendingSnapshot, isRecording, isTranscribing,
                   acquiring, mediaRecorderRef, audio>>

\* mediaRecorder.onstop up to reader.readAsDataURL
RecorderOnStop ==
    \E r \in 1..Len(recorders) :
        /\ recorders[r].pc = "onstop"
        /\ isRecording' = FALSE
        /\ isTranscribing' = TRUE
        /\ recorders' = [recorders EXCEPT ![r].pc = "reading"]
        /\ UNCHANGED <<memvars, avars, appvars, pendingSnapshot, acquiring, mediaRecorderRef,
                       audio>>

\* reader.onloadend up to `await transcribeAudio`
ReaderLoadEnd ==
    \E r \in 1..Len(recorders) :
        /\ recorders[r].pc = "reading"
        /\ recorders' = [recorders EXCEPT ![r].pc = "transcribing"]
        /\ UNCHANGED <<memvars, avars, appvars, pendingSnapshot, isRecording, isTranscribing,
                       acquiring, mediaRecorderRef, audio>>

Transcriptions == {<<>>, <<"V">>}

\* a recorder whose handlers have all run: its closures are garbage
Finished(rec) ==
    [rec EXCEPT !.pc = "done", !.cMessages = <<>>, !.cDocuments = <<>>,
                !.cSnapshot = <<>>, !.cPlaying = {}]

\* reader.onloadend after a failed read: reader.result is null, so
\* `reader.result.split(',')` throws before the try block is entered and
\* neither the catch nor the finally block runs
ReaderLoadError ==
    \E r \in 1..Len(recorders) :
        /\ recorders[r].pc = "reading"
        /\ recorders' = [recorders EXCEPT ![r] = [Finished(@) EXCEPT !.pc = "unread"]]
        /\ UNCHANGED <<memvars, avars, appvars, pendingSnapshot, isRecording, isTranscribing,
                       acquiring, mediaRecorderRef, audio>>

\* transcribeAudio resolved: lines 410-414, then the finally block
TranscribeResolve ==
    \E r \in 1..Len(recorders), transcription \in Transcriptions :
        /\ recorders[r].pc = "transcribing"
        /\ recorders' = [recorders EXCEPT ![r] = Finished(@)]
        /\ isTranscribing' = FALSE
        /\ IF Truthy(transcription)
           THEN /\ Len(sends) < MaxSends
                /\ handleSendMessage(transcription, recorders[r].cSnapshot,
                                     recorders[r].cMessages, recorders[r].cDocuments)
                /\ pendingSnapshot' = <<>>
           ELSE UNCHANGED <<messages, store_msgs, status, sends, audio, pendingSnapshot>>
        /\ UNCHANGED <<memvars, avars, now, documents, clearing, isRecording, acquiring,
                       mediaRecorderRef>>

\* transcribeAudio rejected: the catch block logs, then the finally block
TranscribeReject ==
    \E r \in 1..Len(recorders) :
        /\ recorders[r].pc = "transcribing"
        /\ recorders' = [recorders EXCEPT ![r] = [Finished(@) EXCEPT !.pc = "failed"]]
        /\ isTranscribing' = FALSE
        /\ UNCHANGED <<memvars, avars, appvars, pendingSnapshot, isRecording, acquiring,
                       mediaRecorderRef, audio>>

(***************************************************************************)
(* ChatInterface.tsx: speech playback                                      *)
(***************************************************************************)
SpeechBudget == audio.requested < MaxSpeeches

\* the speaker button of a model-authored message
HandleSpeech ==
    \E i \in 1..Len(messages) :
        /\ messages[i].role = "model"
        /\ audio.isSpeaking = messages[i].id \/ (SpeechBudget /\ StopBudget)
        /\ Len(audio.toggles) < MaxPendingToggles
        /\ audio' = handleSpeech(audio, messages[i].id)
        /\ audio' # audio
        /\ UNCHANGED <<memvars, avars, appvars, recvars>>

\* the header's pause / resume button, rendered while isSpeaking is set
PauseResumeButton ==
    /\ audio.isSpeaking # NoId
    /\ Len(audio.toggles) < MaxPendingToggles
    /\ audio' = IF audio.isPaused THEN resumeSpeech(audio) ELSE pauseSpeech(audio)
    /\ audio' # audio
    /\ UNCHANGED <<memvars, avars, appvars, recvars>>

\* the header's stop button, rendered while isSpeaking is set
StopButton ==
    /\ audio.isSpeaking # NoId
    /\ StopBudget
    /\ audio' = stopSpeech(audio)
    /\ UNCHANGED <<memvars, avars, appvars, recvars>>

\* stopSpeech after `await ctx.resume()`
StopSpeechContinue ==
    /\ audio.stops > 0
    /\ audio' = StopSpeechTail([audio EXCEPT !.stops = @ - 1, !.ctx = "running"])
    /\ UNCHANGED <<memvars, avars, appvars, recvars>>

\* pauseSpeech after `await ctx.suspend()`, resumeSpeech after `await ctx.resume()`
ToggleContinue ==
    /\ audio.toggles # <<>>
    /\ audio' = IF Head(audio.toggles) = "suspend"
                THEN [audio EXCEPT !.toggles = Tail(@), !.ctx = "suspended",
                                   !.isPaused = TRUE]
                ELSE [audio EXCEPT !.toggles = Tail(@), !.ctx = "running",
                                   !.isPaused = FALSE]
    /\ UNCHANGED <<memvars, avars, appvars, recvars>>

\* the auto-speak toggle; the effect (deps [messages, autoSpeak]) runs again
ToggleAutoSpeak ==
    /\ messages = <<>> => StopBudget
    /\ audio' = AutoSpeakEffect([audio EXCEPT !.autoSpeak = ~@], messages)
    /\ UNCHANGED <<memvars, avars, appvars, recvars>>

\* generateSpeech resolved: lines 148-158 up to the next await
SynthResolve ==
    \E k \in 1..Len(audio.speeches) :
        /\ audio.speeches[k].pc = "synth"
        /\ audio' = IF audio.ctx = "suspended"
                    THEN [audio EXCEPT !.speeches[k].pc = "resume"]
                    ELSE [audio EXCEPT !.speeches[k].pc = "decode", !.ctx = "running"]
        /\ UNCHANGED <<memvars, avars, appvars, recvars>>

\* handleSpeech after `await ctx.resume()`
SpeechResumed ==
    \E k \in 1..Len(audio.speeches) :
        /\ audio.speeches[k].pc = "resume"
        /\ audio' = [audio EXCEPT !.speeches[k].pc = "decode", !.ctx = "running"]
        /\ UNCHANGED <<memvars, avars, appvars, recvars>>

\* decodeAudioData resolved: lines 159-168
SpeechStart ==
    \E k \in 1..Len(audio.speeches) :
        /\ audio.speeches[k].pc = "decode"
        /\ audio' = [audio EXCEPT
               !.speeches = RemoveAt(@, k),
               !.sources = Append(@, [id |-> audio.speeches[k].id, state |-> "playing"]),
               !.currentAudioSourceRef = Len(audio.sources) + 1]
        /\ UNCHANGED <<memvars, avars, appvars, recvars>>

\* generateSpeech or decodeAudioData rejected: the catch block
SpeechFail ==
    \E k \in 1..Len(audio.speeches) :
        /\ audio' = [audio EXCEPT !.speeches = RemoveAt(@, k),
                                  !.isSpeaking = NoId,
                                  !.isPaused = FALSE]
        /\ UNCHANGED <<memvars, avars, appvars, recvars>>

\* source.onended: the buffer played to its end (the context is running),
\* or the ended event of a source that stop() was called on is delivered
SourceEnded ==
    \E n \in 1..Len(audio.sources) :
        /\ \/ audio.sources[n].state = "playing" /\ audio.ctx = "running"
           \/ audio.sources[n].state = "stopped"
        /\ audio' = [audio EXCEPT !.sources[n].state = "ended",
                                  !.isSpeaking = NoId,
                                  !.isPaused = FALSE,
                                  !.currentAudioSourceRef = 0]
        /\ UNCHANGED <<memvars, avars, appvars, recvars>>

(***************************************************************************)
(* Specifications                                                          *)
(***************************************************************************)
\* a conversation of an earlier session: its ids (Date.now() then) lie
\* before every id this session creates
RestoredConversation ==
    << [id |-> -5, role |-> "user", text |-> <<"Q">>, hasAttachments |-> TRUE,
        attachments |-> <<>>, timestamp |-> -5],
       [id |-> -4, role |-> "model", text |-> ReplyText, hasAttachments |-> FALSE,
        attachments |-> <<>>, timestamp |-> -5],
       [id |-> -3, role |-> "user", text |-> <<"Q">>, hasAttachments |-> TRUE,
        attachments |-> <<>>, timestamp |-> -3],
       [id |-> -2, role |-> "model", text |-> ReplyText, hasAttachments |-> FALSE,
        attachments |-> <<>>, timestamp |-> -3] >>

SeqToSet(s) == {s[i] : i \in 1..Len(s)}

\* the state once initData has loaded the store and the first effects ran
AppInit(Conversations) ==
    /\ now = 0
    /\ documents = <<>>
    /\ messages \in Conversations
    /\ store_msgs = SeqToSet(messages)
    /\ status = "IDLE"
    /\ sends = <<>>
    /\ clearing = 0
    /\ pendingSnapshot = <<>>
    /\ isRecording = FALSE
    /\ isTranscribing = FALSE
    /\ acquiring = <<>>
    /\ recorders = <<>>
    /\ mediaRecorderRef = 0
    /\ MemoryLoaded
    /\ audio = [isSpeaking |-> NoId, isPaused |-> FALSE, autoSpeak |-> FALSE,
                lastReadMessageId |-> IF messages = <<>> THEN NoId
                                      ELSE messages[Len(messages)].id,
                ctx |-> "none", sources |-> <<>>, currentAudioSourceRef |-> 0,
                speeches |-> <<>>, stops |-> 0, toggles |-> <<>>, requested |-> 0,
                autoSpoken |-> <<>>]

AssembleIdle ==
    /\ a_phase = "idle"
    /\ a_prompt = <<>> /\ a_history = <<>> /\ a_memory = <<>>
    /\ a_attachments = <<>> /\ a_contents = <<>>

AppIdle ==
    /\ now = 0 /\ documents = <<>> /\ messages = <<>> /\ store_msgs = {}
    /\ status = "IDLE" /\ sends = <<>> /\ clearing = 0
    /\ pendingSnapshot = <<>> /\ isRecording = FALSE /\ isTranscribing = FALSE
    /\ acquiring = <<>> /\ recorders = <<>> /\ mediaRecorderRef = 0
    /\ MemoryLoaded
    /\ audio = [isSpeaking |-> NoId, isPaused |-> FALSE, autoSpeak |-> FALSE,
                lastReadMessageId |-> NoId,
                ctx |-> "none", sources |-> <<>>, currentAudioSourceRef |-> 0,
                speeches |-> <<>>, stops |-> 0, toggles |-> <<>>, requested |-> 0,
                autoSpoken |-> <<>>]

\* the chat controller: submission, reply, failure, clear history
Init == AssembleIdle /\ AppInit({<<>>})

Next ==
    \/ HandleSubmit
    \/ ResearchResolve
    \/ ResearchReject
    \/ HandleClearHistory
    \/ ClearHistoryDone
    \/ Tick
    \/ CaptureSnapshot
    \/ DiscardSnapshot

Spec == Init /\ [][Next]_vars

\* the chat controller with the capture and transcription pipeline
InitVoice == AssembleIdle /\ AppInit({<<>>})

NextVoice ==
    \/ HandleSubmit
    \/ ResearchResolve
    \/ ResearchReject
    \/ HandleClearHistory
    \/ ClearHistoryDone
    \/ StartRecording
    \/ AcquireGranted
    \/ AcquireDenied
    \/ StopRecording
    \/ RecorderOnStop
    \/ ReaderLoadEnd
    \/ TranscribeResolve
    \/ TranscribeReject

SpecVoice == InitVoice /\ [][NextVoice]_vars

\* one performResearch call on inputs drawn from the sample sets
InitAssemble == AssembleInit /\ AppIdle

NextAssemble == Assemble /\ UNCHANGED <<appvars, recvars, audio, memvars>>

SpecAssemble == InitAssemble /\ [][NextAssemble]_vars

\* speech playback with the start of a capture
InitAudio == AssembleIdle /\ AppInit({RestoredConversation})

NextAudio ==
    \/ HandleSpeech
    \/ PauseResumeButton
    \/ StopButton
    \/ StopSpeechContinue
    \/ ToggleContinue
    \/ ToggleAutoSpeak
    \/ SynthResolve
    \/ SpeechResumed
    \/ SpeechStart
    \/ SpeechFail
    \/ SourceEnded
    \/ StartRecording
    \/ AcquireGranted
    \/ AcquireDenied
    \/ StopRecording

SpecAudio == InitAudio /\ [][NextAudio]_vars

\* the chat controller with the auto-speak effect, on a restored
\* conversation.  What the effect does depends on messages, autoSpeak and
\* lastReadMessageIdRef only, none of which the continuations of handleSpeech
\* write: the synthesis calls it starts stay pending here.
InitSpeak == AssembleIdle /\ AppInit({RestoredConversation})

NextSpeak ==
    \/ HandleSubmit
    \/ ResearchResolve
    \/ ResearchReject
    \/ HandleClearHistory
    \/ ClearHistoryDone
    \/ Tick
    \/ ToggleAutoSpeak

SpecSpeak == InitSpeak /\ [][NextSpeak]_vars

\* speech playback with clear history, on a restored conversation
InitClear == AssembleIdle /\ AppInit({RestoredConversation})

NextClear ==
    \/ HandleSpeech
    \/ PauseResumeButton
    \/ StopButton
    \/ StopSpeechContinue
    \/ ToggleContinue
    \/ SynthResolve
    \/ SpeechResumed
    \/ SpeechStart
    \/ SpeechFail
    \/ SourceEnded
    \/ HandleClearHistory
    \/ ClearHistoryDone

SpecClear == InitClear /\ [][NextClear]_vars

\* the capture pipeline with every outcome of the read and of the
\* transcription, where each asynchronous call eventually completes
InitTranscribe == AssembleIdle /\ AppInit({<<>>})

NextTranscribe ==
    \/ StartRecording
    \/ AcquireGranted
    \/ AcquireDenied
    \/ StopRecording
    \/ RecorderOnStop
    \/ ReaderLoadEnd
    \/ ReaderLoadError
    \/ TranscribeResolve
    \/ TranscribeReject
    \/ ResearchResolve
    \/ ResearchReject
    \/ CaptureSnapshot
    \/ DiscardSnapshot

\* getUserMedia, the recorder's stop event, the FileReader, transcribeAudio
\* and performResearch each settle
FairTranscribe ==
    /\ WF_vars(AcquireGranted \/ AcquireDenied)
    /\ WF_vars(RecorderOnStop)
    /\ WF_vars(ReaderLoadEnd \/ ReaderLoadError)
    /\ WF_vars(TranscribeResolve \/ TranscribeReject)
    /\ WF_vars(ResearchResolve \/ ResearchReject)

SpecTranscribe == InitTranscribe /\ [][NextTranscribe]_vars /\ FairTranscribe

\* boot and the document memory: the page has just mounted and its effect
\* has called initData; the store holds what an earlier session left
StoredDocuments ==
    {{}, {DemoDocs(-5)[4], [UploadedDoc(1, -4) EXCEPT !.id = <<"u0">>]}}

InitMemory ==
    /\ AssembleIdle
    /\ now = 0 /\ documents = <<>> /\ messages = <<>>
    /\ store_msgs = SeqToSet(RestoredConversation)
    /\ status = "IDLE" /\ sends = <<>> /\ clearing = 0
    /\ pendingSnapshot = <<>> /\ isRecording = FALSE /\ isTranscribing = FALSE
    /\ acquiring = <<>> /\ recorders = <<>> /\ mediaRecorderRef = 0
    /\ audio = [isSpeaking |-> NoId, isPaused |-> FALSE, autoSpeak |-> FALSE,
                lastReadMessageId |-> NoId,
                ctx |-> "none", sources |-> <<>>, currentAudioSourceRef |-> 0,
                speeches |-> <<>>, stops |-> 0, toggles |-> <<>>, requested |-> 0,
                autoSpoken |-> <<>>]
    /\ boot = initData(BootDone)
    /\ store_docs \in StoredDocuments
    /\ docops = NoDocOps

NextMemory ==
    \/ OpenFails
    \/ OpenSucceeds
    \/ GetAllSucceeds
    \/ GetAllErrors
    \/ InitDataLoaded
    \/ InitDataFailed
    \/ RetryInit
    \/ HandleResetStorage
    \/ HandleAddDocument
    \/ HandleRemoveDocument
    \/ HandleLoadDemoData
    \/ DocumentOpDone
    \/ HandleClearHistory
    \/ ClearHistoryDone

SpecMemory == InitMemory /\ [][NextMemory]_vars

(***************************************************************************)
(* Properties of the assembled request (SpecAssemble)                    *)
(***************************************************************************)
Assembled == a_phase = "done"

\* the parts of the new user turn
NewTurnParts == a_contents[Len(a_contents)].parts

IsBlank(str) == \A i \in 1..Len(str) : str[i] \in {" ", "\n", "\r", "\t"}

\* the payload of a binary document (what follows the first comma, or the
\* whole content when it holds no comma) has a non-whitespace character
HasPayload(doc) ==
    \E i \in 1..Len(doc.content) :
        /\ doc.content[i] \notin {" ", "\n", "\r", "\t"}
        /\ \/ \A j \in 1..Len(doc.content) : doc.content[j] # ","
           \/ \E j \in 1..(i - 1) : doc.content[j] = ","

KnowledgeBaseText(doc) ==
    <<"[KNOWLEDGE BASE DOCUMENT: ">> \o doc.name \o <<" (", doc.type, ")]", "\n">>
    \o doc.content

\* parts is: one text part per document of T, one inline part per document
\* of B, one text part per prompt of P, one inline part per attachment of A
NewTurnIs(parts, T, B, P, A) ==
    /\ Len(parts) = Len(T) + Len(B) + Len(P) + Len(A)
    /\ \A i \in 1..Len(T) :
          /\ parts[i].kind = "text"
          /\ parts[i].text = KnowledgeBaseText(T[i])
    /\ \A i \in 1..Len(B) : parts[Len(T) + i].kind = "inlineData"
    /\ \A i \in 1..Len(P) :
          /\ parts[Len(T) + Len(B) + i].kind = "text"
          /\ parts[Len(T) + Len(B) + i].text = P[i]
    /\ \A i \in 1..Len(A) :
          /\ parts[Len(T) + Len(B) + Len(P) + i].kind = "inlineData"
          /\ parts[Len(T) + Len(B) + Len(P) + i].mimeType = A[i].mimeType

TextualDocs(memory) ==
    SelectSeq(memory, LAMBDA d : d.type \in {"text", "json", "markdown", "csv"})

BinaryDocs(memory) == SelectSeq(memory, LAMBDA d : d.type \in {"image", "pdf"})

PartNonEmpty(part) ==
    \/ part.kind = "text" /\ part.text # <<>>
    \/ part.kind = "inlineData" /\ part.data # <<>>

\* C3 as stated: every turn of the assembled request holds at least one part
\* whose text or inline payload is non-empty.
C3_AsStated ==
    Assembled =>
        \A t \in 1..Len(a_contents) :
            \E k \in 1..Len(a_contents[t].parts) : PartNonEmpty(a_contents[t].parts[k])

NoAttachments(msg) == ~msg.hasAttachments \/ msg.attachments = <<>>

ReplayedAttachments(msg) ==
    IF NoAttachments(msg) THEN <<>>
    ELSE [k \in 1..Len(msg.attachments) |->
            [kind |-> "inlineData", mimeType |-> msg.attachments[k].mimeType,
             data |-> msg.attachments[k].data]]

\* C4 as stated: a historical message with empty text and no attachments is
\* replayed as the placeholder part alone; every other one as its text part
\* (if the text is non-empty) followed by one part per attachment.
C4_AsStated ==
    Assembled =>
        \A i \in 1..Len(a_history) :
            a_contents[i].parts =
                IF a_history[i].text = <<>> /\ NoAttachments(a_history[i])
                THEN << [kind |-> "text", text |-> <<"...">>] >>
                ELSE (IF a_history[i].text # <<>>
                      THEN << [kind |-> "text", text |-> a_history[i].text] >>
                      ELSE <<>>)
                     \o ReplayedAttachments(a_history[i])

\* C4 amended: a historical message whose text is empty or whitespace only
\* and that has no attachments is replayed as the placeholder part alone;
\* every other one as its text part (if the text holds a non-whitespace
\* character) followed by one part per attachment, without placeholder.
C4_HistoryParts ==
    Assembled =>
        \A i \in 1..Len(a_history) :
            a_contents[i].parts =
                IF IsBlank(a_history[i].text) /\ NoAttachments(a_history[i])
                THEN << [kind |-> "text", text |-> <<"...">>] >>
                ELSE (IF ~IsBlank(a_history[i].text)
                      THEN << [kind |-> "text", text |-> a_history[i].text] >>
                      ELSE <<>>)
                     \o ReplayedAttachments(a_history[i])

\* a whitespace-only message without attachments was replayed as the placeholder
C4_Witness ==
    /\ Assembled
    /\ Len(a_history) = 1
    /\ a_history[1].text = <<" ">>
    /\ NoAttachments(a_history[1])
    /\ a_contents[1].parts = << [kind |-> "text", text |-> <<"...">>] >>

HasWhitespace(str) == \E i \in 1..Len(str) : str[i] \in {" ", "\n", "\r", "\t"}

Outstanding == {i \in 1..Len(sends) : sends[i].pc = "awaiting"}

\* the turn list the i-th invocation of handleSendMessage sent
SentContents(i) ==
    performResearch(sends[i].prompt, sends[i].history, sends[i].memory,
                    sends[i].attachments)

\* C2 as stated: the turn list of every submission is one replayed turn per
\* message that was in the conversation before the submission, in order and
\* tagged with its role, followed by exactly one new user turn.
C2_AsStated ==
    \A i \in Outstanding :
        /\ Len(SentContents(i)) = Len(sends[i].prior) + 1
        /\ \A k \in 1..Len(sends[i].prior) :
              SentContents(i)[k].role = sends[i].prior[k]
        /\ SentContents(i)[Len(SentContents(i))].role = "user"

\* C6 as stated: at most one performResearch call that has neither resolved
\* nor rejected is outstanding in every reachable state.
C6_AsStated == Cardinality(Outstanding) <= 1

IsErrorMessage(msg) ==
    /\ msg.role = "model"
    /\ msg.text = <<"Research cycle interrupted. Check your API key or data volume.">>

RejectedNow(i) == sends[i].pc = "awaiting" /\ sends'[i].pc = "rejected"

\* C7 as stated: when performResearch rejects, exactly one model-authored
\* error message is appended to the conversation and the status is idle.
C7_AsStated ==
    [][\A i \in 1..Len(sends) :
          RejectedNow(i) =>
              /\ Len(messages') = Len(messages) + 1
              /\ SubSeq(messages', 1, Len(messages)) = messages
              /\ IsErrorMessage(messages'[Len(messages')])
              /\ status' = "IDLE"]_vars

\* C7 amended: when performResearch rejects, exactly one model-authored
\* error message is appended to the conversation and the status becomes
\* ERROR (no longer LOADING, so the submit guard lets the next prompt in).
C7_ErrorTurn ==
    [][\A i \in 1..Len(sends) :
          RejectedNow(i) =>
              /\ Len(messages') = Len(messages) + 1
              /\ SubSeq(messages', 1, Len(messages)) = messages
              /\ IsErrorMessage(messages'[Len(messages')])
              /\ status' = "ERROR"]_vars

\* a request was rejected: the conversation ends with the user's message and
\* the error message, and the status is ERROR
C7_Witness ==
    /\ Len(sends) = 1
    /\ sends[1].pc = "rejected"
    /\ Len(messages) = 2
    /\ messages[1].role = "user"
    /\ IsErrorMessage(messages[2])
    /\ status = "ERROR"

\* C8: each invocation of handleSendMessage issues one research call and
\* appends the user message when invoked; its call settles at most once, as
\* resolved or rejected, appending one model-authored message (the reply or
\* the error message) and issuing no further call; a settled invocation
\* does nothing more.
C8_OneCallTwoMessages ==
    [][/\ \A i \in (Len(sends) + 1)..Len(sends') :
             /\ sends'[i].calls = 1
             /\ sends'[i].pc = "awaiting"
             /\ Len(messages') = Len(messages) + 1
             /\ SubSeq(messages', 1, Len(messages)) = messages
             /\ messages'[Len(messages')].role = "user"
             /\ messages'[Len(messages')].text = sends'[i].prompt
       /\ Len(sends') <= Len(sends) + 1
       /\ \A i \in 1..Len(sends) :
             /\ sends[i].pc # "awaiting" => sends'[i] = sends[i]
             /\ (sends[i].pc = "awaiting" /\ sends'[i] # sends[i]) =>
                   /\ sends'[i].pc \in {"resolved", "rejected"}
                   /\ sends'[i].calls = 1
                   /\ Len(messages') = Len(messages) + 1
                   /\ SubSeq(messages', 1, Len(messages)) = messages
                   /\ messages'[Len(messages')].role = "model"
                   /\ sends'[i].pc = "rejected" <=> IsErrorMessage(messages'[Len(messages')])]_vars

\* one invocation ended with the reply and a later one with the error
\* message: the conversation holds four messages, two per invocation
C8_Witness ==
    /\ Len(sends) = 2
    /\ sends[1].pc = "resolved" /\ sends[1].calls = 1
    /\ sends[2].pc = "rejected" /\ sends[2].calls = 1
    /\ Len(messages) = 4
    /\ [k \in 1..4 |-> messages[k].role] = <<"user", "model", "user", "model">>
    /\ ~IsErrorMessage(messages[2])
    /\ IsErrorMessage(messages[4])

(***************************************************************************)
(* Properties of audio capture and playback (SpecVoice, SpecAudio)        *)
(***************************************************************************)
\* C9 as stated: at most one MediaRecorder that was started and not yet
\* stopped exists in every reachable state.
C9_AsStated ==
    Cardinality({r \in 1..Len(recorders) : recorders[r].state = "recording"}) <= 1

\* C10 as stated: at most one synthesized-speech audio source is playing in
\* every reachable state.
C10_AsStated ==
    Cardinality({k \in 1..Len(audio.sources) : audio.sources[k].state = "playing"}) <= 1

Capturing == {r \in 1..Len(recorders) : recorders[r].state = "recording"}

\* C11 as stated: in no reachable state are a microphone capture session
\* and a speech playback active at the same time.
C11_AsStated == Capturing = {} \/ Playing(audio.sources) = {}

\* the step in which MediaRecorder.start() is called
CaptureBegins == Len(recorders') = Len(recorders) + 1

\* C12 as stated: when startRecording was invoked while a source was playing
\* or paused, that source has been stopped by the time the capture begins.
C12_AsStated ==
    [][CaptureBegins =>
          \A n \in recorders'[Len(recorders')].cPlaying :
              audio.sources[n].state # "playing"]_vars

\* the current source is the active speech target and no pause, resume or
\* stop is under way
SpeechSettled ==
    /\ audio.isSpeaking # NoId
    /\ audio.currentAudioSourceRef # 0
    /\ audio.sources[audio.currentAudioSourceRef].state = "playing"
    /\ audio.sources[audio.currentAudioSourceRef].id = audio.isSpeaking
    /\ audio.toggles = <<>>
    /\ audio.stops = 0

\* C13 as stated: the speak control invoked with the id of the active speech
\* target issues no synthesis request and starts no source; it pauses the
\* playback if it is running and resumes it if it is paused.
C13_AsStated ==
    SpeechSettled =>
        LET after == handleSpeech(audio, audio.isSpeaking)
        IN  /\ after.requested = audio.requested
            /\ after.speeches = audio.speeches
            /\ after.sources = audio.sources
            /\ audio.ctx = "running" => after.toggles = <<"suspend">>
            /\ audio.ctx = "suspended" => after.toggles = <<"resume">>

(***************************************************************************)
(* Properties of the auto-speak effect (SpecSpeak, SpecClear)              *)
(***************************************************************************)
RestoredIds == {RestoredConversation[i].id : i \in 1..Len(RestoredConversation)}

AutoSpokenIds == {audio.autoSpoken[k] : k \in 1..Len(audio.autoSpoken)}

\* C14: the auto-speak effect never invokes speech for a message that was
\* in the conversation when the chat component mounted.
C14_RestoredNeverSpoken == AutoSpokenIds \cap RestoredIds = {}

\* the restored messages are still in the conversation, the preference was
\* switched on, two messages were appended and the reply was auto-spoken
C14_Witness ==
    /\ Len(messages) = Len(RestoredConversation) + 2
    /\ SubSeq(messages, 1, Len(RestoredConversation)) = RestoredConversation
    /\ audio.autoSpeak
    /\ audio.autoSpoken = <<messages[Len(messages)].id>>

\* the step appends one model-authored message to the conversation
AppendsModelMessage ==
    /\ Len(messages') = Len(messages) + 1
    /\ SubSeq(messages', 1, Len(messages)) = messages
    /\ messages'[Len(messages')].role = "model"

\* C15 as stated: while the preference is enabled, every model-authored
\* message appended after the load triggers exactly one automatic speak
\* invocation, for that message, and nothing else triggers one.
C15_AsStated ==
    [][/\ (AppendsModelMessage /\ audio.autoSpeak) =>
              audio'.autoSpoken = Append(audio.autoSpoken, messages'[Len(messages')].id)
       /\ audio'.autoSpoken # audio.autoSpoken =>
              AppendsModelMessage /\ audio.autoSpeak]_vars

\* C16 as stated: with the preference enabled, after load with restored
\* messages and clear history, the restored messages were not auto-spoken,
\* the store holds no message, and appending one model-authored message
\* fires auto-speak exactly once, for that message.
C16_AsStated ==
    [][(messages = <<>> /\ AppendsModelMessage /\ audio.autoSpeak) =>
          /\ AutoSpokenIds \cap RestoredIds = {}
          /\ store_msgs = {}
          /\ audio'.autoSpoken = Append(audio.autoSpoken, messages'[1].id)]_vars

\* C17 as stated: once the conversation is cleared (and the stopSpeech the
\* clear invoked has run to its end) no speech source is playing; while the
\* conversation is empty there is no control to request speech with.
C17_AsStated ==
    (messages = <<>> /\ audio.stops = 0) => Playing(audio.sources) = {}

(***************************************************************************)
(* Properties of the capture pipeline (SpecVoice)                          *)
(***************************************************************************)
\* C18 as stated: a capture session never begins while a transcription is in
\* progress or a research request is awaiting its response.
C18_AsStated ==
    [][CaptureBegins => (~isTranscribing /\ status # "LOADING")]_vars

\* the step in which the transcription call of recorder r rejects
TranscriptionFails(r) ==
    recorders[r].pc = "transcribing" /\ recorders'[r].pc = "failed"

\* C19 as stated: when the transcription call fails, no message is sent, the
\* conversation and the pending snapshot are unchanged, and isRecording and
\* isTranscribing are both false afterwards.
C19_AsStated ==
    [][\A r \in 1..Len(recorders) :
          TranscriptionFails(r) =>
              /\ messages' = messages
              /\ sends' = sends
              /\ pendingSnapshot' = pendingSnapshot
              /\ ~isRecording'
              /\ ~isTranscribing']_vars

\* the step in which a getUserMedia call rejects
AcquisitionFails ==
    Len(acquiring') = Len(acquiring) - 1 /\ recorders' = recorders

\* C20 as stated: when the microphone cannot be acquired, isRecording and
\* isTranscribing are false, no capture session exists and no message is sent.
C20_AsStated ==
    [][AcquisitionFails =>
          /\ ~isRecording'
          /\ ~isTranscribing'
          /\ Capturing' = {}
          /\ messages' = messages
          /\ sends' = sends]_vars

(***************************************************************************)
(* Properties of boot and of the store wrapper's reads                     *)
(***************************************************************************)
\* initData has finished: the spinner is gone
BootFinished == ~boot.isInitializing

\* C21 as stated: when the store could not be opened during initData,
\* initialization ends with initError set, never on the main screen.
C21_AsStated ==
    (BootFinished /\ boot.failedOpens # {}) => boot.initError # NoError

\* the state the statement excludes: no read could open the store, and the
\* main screen shows an empty memory and an empty conversation
C21_EmptyStart ==
    /\ BootFinished
    /\ boot.failedOpens = Reads
    /\ boot.initError = NoError
    /\ documents = <<>> /\ messages = <<>>

\* C22 as stated: no read of the store wrapper ends rejected; each failure
\* resolves to the empty list.
C22_AsStated ==
    \A r \in Reads : boot.reads[r].pc # "rejected"

(***************************************************************************)
(* Properties of the conversation and of the two memories                  *)
(***************************************************************************)
OrderedByTimestamp(msgs) ==
    \A i \in 1..Len(msgs), j \in 1..Len(msgs) :
        i < j => msgs[i].timestamp <= msgs[j].timestamp

\* handleClearHistory completes in this step
ClearCompletes == clearing' = clearing - 1

\* msgs2 is msgs1 with messages appended at its end
Extends(msgs1, msgs2) ==
    /\ Len(msgs2) >= Len(msgs1)
    /\ SubSeq(msgs2, 1, Len(msgs1)) = msgs1

\* C23: the conversation is always ordered by non-decreasing timestamp, and
\* every step other than the completion of a clear-history action leaves it
\* as it is or appends at its end.
C23_OrderedAppendOnly ==
    /\ [](OrderedByTimestamp(messages))
    /\ [][ClearCompletes \/ Extends(messages, messages')]_vars

\* a restored conversation followed by messages of two distinct clock values
C23_Witness ==
    /\ Len(messages) > Len(RestoredConversation) + 1
    /\ SubSeq(messages, 1, Len(RestoredConversation)) = RestoredConversation
    /\ messages[Len(messages)].timestamp
         > messages[Len(RestoredConversation) + 1].timestamp

\* a step of handleClearHistory: its request is issued, or it completes
ClearHistoryStep == clearing' # clearing

\* a step of handleAddDocument, handleRemoveDocument or handleLoadDemoData
DocumentStep == docops' # docops

\* C24: a clear-history step changes neither the document list nor the
\* persisted documents; a step of a document handler changes neither the
\* conversation nor the persisted messages.
C24_Frames ==
    [][/\ ClearHistoryStep => documents' = documents /\ store_docs' = store_docs
       /\ DocumentStep => messages' = messages /\ store_msgs' = store_msgs]_vars

\* a clear is in flight next to a document handler, with documents in the
\* list and in the store and a conversation on screen
C24_Witness ==
    /\ clearing > 0
    /\ store_msgs = {} /\ messages # <<>>
    /\ docops.ops # <<>>
    /\ documents # <<>> /\ store_docs # {}

\* C26 as stated: the document list never holds two documents of one id.
C26_AsStated ==
    \A i \in 1..Len(documents), j \in 1..Len(documents) :
        documents[i].id = documents[j].id => i = j

(***************************************************************************)
(* Properties of the transcription stage                                   *)
(***************************************************************************)
\* C25 as stated: whenever isTranscribing is true it eventually is false
\* again, whatever the outcome of the read and of the transcription.
C25_AsStated == isTranscribing ~> ~isTranscribing

(***************************************************************************)
(* Properties of message ids and of replies after a clear                  *)
(***************************************************************************)
\* C27 as stated: the messages of the conversation have pairwise distinct ids.
C27_AsStated ==
    \A i \in 1..Len(messages), j \in 1..Len(messages) :
        messages[i].id = messages[j].id => i = j

\* the user message a handleSendMessage invocation appended
UserMsgOf(send) == send.history[Len(send.history)]

\* the invocation still awaits performResearch and its user message is
\* neither in the conversation nor in the store any more: a clear-history
\* action was started after the submission and has completed
IssuedBeforeClear(send) ==
    /\ send.pc = "awaiting"
    /\ ~\E k \in 1..Len(messages) : messages[k] = UserMsgOf(send)
    /\ UserMsgOf(send) \notin store_msgs

\* C30 as stated: when a request issued before a completed clear settles,
\* nothing is added to the conversation or to the persisted messages.
C30_AsStated ==
    [][\A i \in 1..Len(sends) :
          (IssuedBeforeClear(sends[i]) /\ sends'[i].pc # "awaiting")
             => messages' = messages /\ store_msgs' = store_msgs]_vars

(***************************************************************************)
(* Properties of the paused flag and of the active-speech marker           *)
(***************************************************************************)
\* synthesized audio is audible: a source plays on a running context
AudiblyPlaying == audio.ctx = "running" /\ Playing(audio.sources) # {}

\* C28 as stated: isPaused only with an active speech target and a suspended
\* context; never isPaused while audio is audibly playing; never a suspended
\* context for the active target while isPaused is false.
C28_AsStated ==
    /\ audio.isPaused => (audio.isSpeaking # NoId /\ audio.ctx = "suspended")
    /\ ~(audio.isPaused /\ AudiblyPlaying)
    /\ ~(audio.ctx = "suspended" /\ audio.isSpeaking # NoId /\ ~audio.isPaused)

\* C29 as stated: while a source is playing, isSpeaking is the id of the
\* message it was synthesized for and currentAudioSourceRef points to it.
C29_AsStated ==
    \A n \in 1..Len(audio.sources) :
        audio.sources[n].state = "playing"
            => /\ audio.isSpeaking = audio.sources[n].id
               /\ audio.currentAudioSourceRef = n

=============================================================================
